---- MODULE Spec2Model ----
(***************************************************************************)
(* Model of the k8s_status module of operator_sdk.util                     *)
(* (plugins/modules/k8s_status.py): one invocation validates its           *)
(* parameters, looks the resource up, fetches the instance and then        *)
(* either replaces the status or merge-patches it; and of the k8s_event     *)
(* module (plugins/modules/k8s_event.py), which creates or patches one     *)
(* Event object per invocation.                                            *)
(*                                                                         *)
(* Python values are tagged records [t |-> type, v |-> payload]:           *)
(*   str      v is the string                                              *)
(*   NoneType v is "None"                                                  *)
(*   list     v is a sequence of values                                    *)
(*   tuple    v is a sequence of values                                    *)
(*   dict     v is a function from keys to values                          *)
(*   bool     v is TRUE or FALSE                                           *)
(***************************************************************************)
EXTENDS Integers, Sequences, FiniteSets, TLC

\* k8s_status
VARIABLES params, remote, pc, status, conditions, instance, calls,
          result, changed, error, prev, inv

\* k8s_event
VARIABLES eparams, events, clock, epc, now, event, prior_event, einstance,
          ecalls, eresult, echanged, eerror

svars == <<params, remote, pc, status, conditions, instance, calls,
           result, changed, error, prev, inv>>

evars == <<eparams, events, clock, epc, now, event, prior_event, einstance,
           ecalls, eresult, echanged, eerror>>

vars == <<svars, evars>>

-----------------------------------------------------------------------------
(* Python values *)

Str(s) == [t |-> "str", v |-> s]

None == [t |-> "NoneType", v |-> "None"]

List(s) == [t |-> "list", v |-> s]

Tuple(s) == [t |-> "tuple", v |-> s]

Dict(f) == [t |-> "dict", v |-> f]

Bool(b) == [t |-> "bool", v |-> b]

EmptyDict == Dict(<<>>)

EmptyList == List(<<>>)

\* dict.get(k, default)
Get(d, k, default) == IF k \in DOMAIN d.v THEN d.v[k] ELSE default

\* d[k] = x on a copy of d
SetItem(d, k, x) == Dict((k :> x) @@ d.v)

\* del d[k] on a copy of d
DelItem(d, k) == Dict([j \in (DOMAIN d.v) \ {k} |-> d.v[j]])

\* Python truth value of a value
Truthy(x) ==
    CASE x.t = "NoneType" -> FALSE
      [] x.t = "str" -> x.v # ""
      [] x.t = "bool" -> x.v
      [] x.t \in {"list", "tuple"} -> Len(x.v) > 0
      [] x.t = "dict" -> DOMAIN x.v # {}
      [] OTHER -> TRUE

-----------------------------------------------------------------------------
(* Bounds and the values the inputs are drawn from *)

MaxDesired == 2

MaxObserved == 2

MaxInvocations == 2

T1 == "2020-01-01T00:00:00Z"

T2 == "2021-06-01T12:30:00Z"

Cond(type, st) == Dict(("type" :> Str(type)) @@ ("status" :> Str(st)))

CondAt(type, st, ltt) == SetItem(Cond(type, st), "lastTransitionTime", ltt)

\* conditions a caller may ask for
DesiredConditions ==
    { Cond("A", "True"), Cond("A", "False"), CondAt("A", "True", Str(T1)),
      CondAt("A", "True", None), Cond("B", "False"), Cond("C", "True") }

\* conditions the resource may already carry
ObservedConditions ==
    { CondAt("A", "True", Str(T1)), Cond("A", "False"),
      CondAt("B", "False", Str(T2)), Cond("C", "Unknown") }

SeqsUpTo(S, n) == UNION { [1..k -> S] : k \in 0..n }

TypeOf(c) == Get(c, "type", None)

DistinctTypes(s) ==
    \A i, j \in 1..Len(s) : i # j => TypeOf(s[i]) # TypeOf(s[j])

DesiredLists == SeqsUpTo(DesiredConditions, MaxDesired)

ObservedLists ==
    { s \in SeqsUpTo(ObservedConditions, MaxObserved) : DistinctTypes(s) }

Tags(s) == List([i \in 1..Len(s) |-> Str(s[i])])

\* the status parameter: unset, or a mapping
StatusParams ==
    { None,
      Dict("phase" :> Str("x")),
      Dict("tags" :> Tags(<<"a", "b">>)),
      Dict("conditions" :> List(<<Cond("A", "True")>>)) }

\* the fields of the stored status other than conditions
ObservedFields ==
    { EmptyDict,
      Dict("phase" :> Str("x")),
      Dict("phase" :> Str("y")),
      Dict("tags" :> Tags(<<"a", "b", "c">>)) }

\* desired and stored statuses whose fields differ in shape or in nesting
Info(f) == Dict("info" :> Dict(f))

ShapeParams ==
    { Dict("tags" :> Tags(<<"b", "a", "a">>)),
      Dict("tags" :> Tags(<<"a", "d">>)),
      Dict("tags" :> Str("ab")),
      Dict("tags" :> None),
      Dict("tags" :> Dict("a" :> Str("x"))),
      Info("a" :> Str("x")),
      Info("a" :> Str("y")),
      Info("c" :> None),
      Dict("info" :> Str("x")),
      Dict("info" :> Tags(<<"a">>)),
      Dict("phase" :> None),
      Dict("phase" :> Tags(<<"x">>)),
      Dict("phase" :> Dict("a" :> Str("x"))) }

ShapeObserved ==
    { EmptyDict,
      Dict("phase" :> Str("x")),
      Dict("tags" :> Tags(<<"a", "b", "c">>)),
      Info(("a" :> Str("x")) @@ ("b" :> Str("y"))) }

\* conditions as a caller may write them, valid or not
RawConditions ==
    { Cond("A", "True"),
      Dict(("type" :> Str("A")) @@ ("status" :> Bool(TRUE))),
      Dict(("type" :> Str("A")) @@ ("status" :> Bool(FALSE))),
      Str("A"),
      SetItem(Cond("A", "True"), "foo", Str("x")),
      Dict("status" :> Str("True")),
      Cond("", "True"),
      Dict("type" :> Str("A")),
      Cond("A", "Maybe"),
      SetItem(Cond("A", "True"), "reason", Str("not_camel")),
      CondAt("A", "True", Str("yesterday")),
      SetItem(Cond("A", "True"), "lastHeartbeatTime", Str("yesterday")),
      SetItem(Cond("A", "True"), "lastHeartbeatTime", Str(T1)) }

RawLists == SeqsUpTo(RawConditions, MaxDesired)

\* the status stored on the resource: none at all, or a mapping
Absent == [t |-> "absent", v |-> "absent"]

ObservedStatuses ==
    {Absent} \cup ObservedFields
    \cup { SetItem(f, "conditions", List(s)) :
             f \in ObservedFields, s \in ObservedLists }

-----------------------------------------------------------------------------
(* validate_conditions *)

VALID_KEYS ==
    {"type", "status", "reason", "message",
     "lastHeartbeatTime", "lastTransitionTime"}

REQUIRED == {"type", "status"}

\* the strings of the model that match the CAMEL_CASE pattern
CAMEL_CASE == {"", "Started", "PingFailed"}

\* the strings of the model that match the RFC3339_datetime pattern
RFC3339_datetime == {T1, T2}

\* the keys whose value is matched against RFC3339_datetime
CheckedTimeKeys == {"lastHeartBeatTime", "lastTransitionTime"}

\* the coercion of a boolean status to its string
CoerceStatus(condition) ==
    IF condition.t = "dict" /\ Get(condition, "status", None).t = "bool"
    THEN SetItem(condition, "status",
                 Str(IF Get(condition, "status", None).v THEN "True" ELSE "False"))
    ELSE condition

\* validate_condition_error without the test of the status value
validate_condition_error_any_status(condition) ==
    LET c == CoerceStatus(condition) IN
    IF condition.t # "dict" THEN "conditions must be a list of objects"
    ELSE IF \E key \in DOMAIN c.v : key \notin VALID_KEYS
         THEN "not a valid field for a condition"
    ELSE IF \E key \in REQUIRED : ~Truthy(Get(c, key, None))
         THEN "Condition must be set"
    ELSE IF Truthy(Get(c, "reason", None))
            /\ Get(c, "reason", None).v \notin CAMEL_CASE
         THEN "Condition reason must be a single, CamelCase word"
    ELSE IF \E key \in CheckedTimeKeys :
               /\ Truthy(Get(c, key, None))
               /\ Get(c, key, None).v \notin RFC3339_datetime
         THEN "must be a RFC3339 compliant datetime string"
    ELSE ""

\* "" when the condition is accepted, else the ValueError message
validate_condition_error(condition) ==
    LET c == CoerceStatus(condition) IN
    IF condition.t # "dict" THEN "conditions must be a list of objects"
    ELSE IF \E key \in DOMAIN c.v : key \notin VALID_KEYS
         THEN "not a valid field for a condition"
    ELSE IF \E key \in REQUIRED : ~Truthy(Get(c, key, None))
         THEN "Condition must be set"
    ELSE IF Get(c, "status", None) \notin {Str("True"), Str("False"), Str("Unknown")}
         THEN "Condition status must be one of"
    ELSE IF Truthy(Get(c, "reason", None))
            /\ Get(c, "reason", None).v \notin CAMEL_CASE
         THEN "Condition reason must be a single, CamelCase word"
    ELSE IF \E key \in CheckedTimeKeys :
               /\ Truthy(Get(c, key, None))
               /\ Get(c, key, None).v \notin RFC3339_datetime
         THEN "must be a RFC3339 compliant datetime string"
    ELSE ""

validate_condition(condition) == CoerceStatus(condition)

\* TRUE when some element makes validate_conditions raise
validate_conditions_raises(conds) ==
    \E i \in 1..Len(conds.v) : validate_condition_error(conds.v[i]) # ""

validate_conditions(conds) ==
    List([i \in 1..Len(conds.v) |-> validate_condition(conds.v[i])])

-----------------------------------------------------------------------------
(* merge_status *)

\* the 1-based index of the first condition of that type, 0 for None
get_condition_idx(conds, name) ==
    IF \E i \in 1..Len(conds) : Get(conds[i], "type", None) = name
    THEN CHOOSE i \in 1..Len(conds) :
           /\ Get(conds[i], "type", None) = name
           /\ \A j \in 1..(i - 1) : Get(conds[j], "type", None) # name
    ELSE 0

\* merge_one keeping the entry it finds instead of overwriting it
merge_one_keeps_old(merged, condition) ==
    LET idx == get_condition_idx(merged, condition.v["type"]) IN
    IF idx # 0
    THEN merged
    ELSE Append(merged, condition)

\* merge_one putting a condition of a new type first instead of last
merge_one_prepends(merged, condition) ==
    LET idx == get_condition_idx(merged, condition.v["type"]) IN
    IF idx # 0
    THEN [merged EXCEPT ![idx] = condition]
    ELSE <<condition>> \o merged

\* one turn of the loop over new_conditions
merge_one(merged, condition) ==
    LET idx == get_condition_idx(merged, condition.v["type"]) IN
    IF idx # 0
    THEN [merged EXCEPT ![idx] = condition]
    ELSE Append(merged, condition)

RECURSIVE merge_loop(_, _, _)
merge_loop(merged, new_conditions, i) ==
    IF i > Len(new_conditions) THEN merged
    ELSE merge_loop(merge_one(merged, new_conditions[i]), new_conditions, i + 1)

merge_status(old, new) ==
    LET old_conditions == Get(old, "conditions", EmptyList)
        new_conditions == Get(new, "conditions", EmptyList)
    IN  IF ~(Truthy(old_conditions) /\ Truthy(new_conditions))
        THEN new
        ELSE SetItem(new, "conditions",
                     List(merge_loop(old_conditions.v, new_conditions.v, 1)))

-----------------------------------------------------------------------------
(* clean_last_transition_time *)

clean_item(item) ==
    IF "lastTransitionTime" \in DOMAIN item.v
    THEN DelItem(item, "lastTransitionTime")
    ELSE item

clean_last_transition_time(st) ==
    IF "conditions" \in DOMAIN st.v
    THEN SetItem(st, "conditions",
                 List([i \in 1..Len(st.v["conditions"].v) |->
                          clean_item(st.v["conditions"].v[i])]))
    ELSE st

-----------------------------------------------------------------------------
(* object_contains *)

\* the characters of a string; every string the status fields of this model
\* hold, other than these, has one character
Chars(s) ==
    CASE s = "" -> <<>>
      [] s = "ab" -> <<"a", "b">>
      [] OTHER -> <<s>>

\* the types a for loop can run over
Iterable == {"list", "tuple", "str", "dict"}

\* what a for loop over x yields: the elements of a list, the characters of
\* a string, the keys of a mapping
Items(x) ==
    CASE x.t \in {"list", "tuple"} -> { x.v[i] : i \in 1..Len(x.v) }
      [] x.t = "str" -> { Str(Chars(x.v)[i]) : i \in 1..Len(Chars(x.v)) }
      [] x.t = "dict" -> { Str(k) : k \in DOMAIN x.v }
      [] OTHER -> {}

values_match(obj, subset) == obj = subset

\* list_is_subset asking for the same list instead of contained elements
list_is_subset_equal(obj, subset) ==
    /\ subset.t \in Iterable
    /\ obj.v = subset.v

\* all(item in obj for item in subset); FALSE stands for the TypeError of a
\* subset that cannot be iterated (see object_contains_raises)
list_is_subset(obj, subset) ==
    /\ subset.t \in Iterable
    /\ \A item \in Items(subset) : \E j \in 1..Len(obj.v) : obj.v[j] = item

\* FALSE stands for the AttributeError of subset.items() on a subset that is
\* no mapping (see object_contains_raises)
RECURSIVE dict_is_subset(_, _)
dict_is_subset(obj, subset) ==
    /\ subset.t = "dict"
    /\ \A k \in DOMAIN subset.v :
          LET o == Get(obj, k, None)
              v == subset.v[k]
          IN  CASE o.t = "dict" -> dict_is_subset(o, v)
                [] o.t \in {"list", "tuple"} -> list_is_subset(o, v)
                [] OTHER -> values_match(o, v)

object_contains(obj, subset) == dict_is_subset(obj, subset)

\* TRUE when object_contains(obj, subset) ends in an exception: the list
\* comprehension of dict_is_subset calls the function of every key
RECURSIVE dict_is_subset_raises(_, _)
dict_is_subset_raises(obj, subset) ==
    \/ subset.t # "dict"
    \/ \E k \in DOMAIN subset.v :
          LET o == Get(obj, k, None)
              v == subset.v[k]
          IN  CASE o.t = "dict" -> dict_is_subset_raises(o, v)
                [] o.t \in {"list", "tuple"} -> v.t \notin Iterable
                [] OTHER -> FALSE

object_contains_raises(obj, subset) == dict_is_subset_raises(obj, subset)

-----------------------------------------------------------------------------
(* replace and patch: what each decides for a fetched instance.  call is    *)
(* the remote call it issues (None for no call), result the value returned  *)
(* when that call succeeds or is not needed.                                *)

NoCall == [op |-> "none", body |-> None]

\* the method replace of the class; execute_module never reaches it, see the
\* action Replace
replace(self_status, inst) ==
    IF self_status = inst.status
    THEN [call |-> NoCall, result |-> inst, changed |-> FALSE]
    ELSE [call |-> [op |-> "replace", body |-> [inst EXCEPT !.status = self_status]],
          result |-> None, changed |-> TRUE]

\* patch stripping lastTransitionTime from the instance itself, not a copy
patch_strips_in_place(self_status, inst) ==
    LET updated_old_status == clean_last_transition_time(inst.status) IN
    IF object_contains(updated_old_status, self_status)
    THEN [call |-> NoCall, result |-> [inst EXCEPT !.status = updated_old_status],
          changed |-> FALSE]
    ELSE [call |-> [op |-> "patch",
                    body |-> [inst EXCEPT !.status = merge_status(inst.status, self_status)]],
          result |-> None, changed |-> TRUE]

\* patch merging into the stripped copy instead of the original status
patch_merges_stripped(self_status, inst) ==
    LET updated_old_status == clean_last_transition_time(inst.status) IN
    IF object_contains(updated_old_status, self_status)
    THEN [call |-> NoCall, result |-> inst, changed |-> FALSE]
    ELSE [call |-> [op |-> "patch",
                    body |-> [inst EXCEPT !.status = merge_status(updated_old_status, self_status)]],
          result |-> None, changed |-> TRUE]

patch(self_status, inst) ==
    LET updated_old_status == clean_last_transition_time(inst.status) IN
    IF object_contains(updated_old_status, self_status)
    THEN [call |-> NoCall, result |-> inst, changed |-> FALSE]
    ELSE [call |-> [op |-> "patch",
                    body |-> [inst EXCEPT !.status = merge_status(inst.status, self_status)]],
          result |-> None, changed |-> TRUE]

-----------------------------------------------------------------------------
(* the resource's side of the status subresource *)

\* application/merge-patch+json: mappings merged key by key, a null member
\* removes the key, anything else (lists included) replaces the stored value
RECURSIVE MergePatch(_, _)
MergePatch(target, p) ==
    IF p.t # "dict" THEN p
    ELSE LET base == IF target.t = "dict" THEN target ELSE EmptyDict
             keep == { k \in DOMAIN base.v :
                         ~(k \in DOMAIN p.v /\ p.v[k].t = "NoneType") }
             add  == { k \in DOMAIN p.v : p.v[k].t # "NoneType" }
         IN  Dict([k \in keep \cup add |->
                     IF k \in DOMAIN p.v
                     THEN MergePatch(Get(base, k, None), p.v[k])
                     ELSE base.v[k]])

-----------------------------------------------------------------------------
(* k8s_event: the Event objects of one namespace *)

MaxClock == 4

\* an Event object: its metadata.name (the name given, and the time appended
\* to it, 0 for none), reason, message, count and timestamps; a count or a
\* timestamp of 0 stands for a field the object does not have
Event(base, ts, reason, message, count, first, last) ==
    [name |-> [base |-> base, ts |-> ts], reason |-> reason, message |-> message,
     count |-> count, firstTimestamp |-> first, lastTimestamp |-> last]

NoEvent == Event("", 0, "", "", 0, 0, 0)

\* the parameters of an invocation of k8s_event
EventParams ==
    [state : {"present", "absent"},
     name : {"ev"},
     reason : {"Started", "PingFailed"},
     message : {"m"},
     appendTimestamp : BOOLEAN]

\* the event of that name the namespace holds, NoEvent for NotFoundError
Stored(store, name) ==
    IF \E e \in store : e.name = name
    THEN CHOOSE e \in store : e.name = name
    ELSE NoEvent

\* what an invocation of k8s_event starts from
EventStart ==
    /\ epc = "start"
    /\ now = 0
    /\ event = NoEvent
    /\ prior_event = NoEvent
    /\ einstance = NoEvent
    /\ ecalls = <<>>
    /\ eresult = NoEvent
    /\ echanged = FALSE
    /\ eerror = ""

-----------------------------------------------------------------------------
(* One invocation of the module, and the next one *)

NoInstance == [status |-> None]

NoResult == [shape |-> "none", obj |-> NoInstance]

\* the parameters the argument spec accepts besides the auth and name options
STATUS_ARG_SPEC == {"status", "conditions", "replace"}

\* the parameters a caller supplied
Supplied(p) ==
    {"status", "conditions", "replace"}
    \cup (IF p.replace_lists THEN {"replace_lists"} ELSE {})

\* the parameters of an invocation and the status it finds stored
Inputs ==
    [params : [status : StatusParams,
               conditions : {None} \cup { List(s) : s \in DesiredLists },
               replace : BOOLEAN,
               replace_lists : BOOLEAN],
     remote : ObservedStatuses]
    \cup
    [params : [status : ShapeParams,
               conditions : {None, List(<<CondAt("A", "True", Str(T1))>>)},
               replace : {FALSE},
               replace_lists : {FALSE}],
     remote : ShapeObserved]
    \cup
    [params : [status : {None, Dict("conditions" :> List(<<Cond("A", "True")>>))},
               conditions : { List(s) : s \in RawLists },
               replace : {FALSE},
               replace_lists : {FALSE}],
     remote : {EmptyDict}]

\* what an invocation of k8s_status starts from
StatusStart ==
    /\ pc = "start"
    /\ status = None
    /\ conditions = None
    /\ instance = NoInstance
    /\ calls = <<>>
    /\ result = NoResult
    /\ changed = FALSE
    /\ error = ""
    /\ prev = "none"
    /\ inv = 1

Init ==
    /\ \E i \in Inputs : params = i.params /\ remote = i.remote
    /\ StatusStart
    /\ eparams = [state |-> "present", name |-> "ev", reason |-> "Started",
                  message |-> "m", appendTimestamp |-> FALSE]
    /\ events = {}
    /\ clock = 1
    /\ EventStart

Fail(kind) ==
    /\ pc' = "failed"
    /\ error' = kind

\* __init__ building the client before it validates the conditions
KubernetesAnsibleStatusModule_client_first ==
    /\ pc = "start"
    /\ UNCHANGED evars
    /\ LET st0 == IF Truthy(params.status) THEN params.status ELSE EmptyDict
           raw == IF Truthy(params.conditions) THEN params.conditions ELSE EmptyList
           conds == validate_conditions(raw)
       IN  IF ~(Supplied(params) \subseteq STATUS_ARG_SPEC)
           THEN Fail("unsupported") /\ UNCHANGED <<status, conditions, calls>>
           ELSE IF validate_conditions_raises(raw)
           THEN /\ Fail("validation")
                /\ calls' = Append(calls, [op |-> "client", body |-> NoInstance])
                /\ UNCHANGED <<status, conditions>>
           ELSE IF Truthy(conds) /\ Truthy(st0) /\ Truthy(Get(st0, "conditions", None))
           THEN Fail("conflict") /\ UNCHANGED <<status, conditions, calls>>
           ELSE /\ conditions' = conds
                /\ status' = IF Truthy(conds) THEN SetItem(st0, "conditions", conds) ELSE st0
                /\ pc' = "constructed"
                /\ UNCHANGED <<error, calls>>
    /\ UNCHANGED <<params, remote, instance, result, changed, prev, inv>>

\* KubernetesAnsibleStatusModule.__init__
KubernetesAnsibleStatusModule ==
    /\ pc = "start"
    /\ UNCHANGED evars
    /\ LET st0 == IF Truthy(params.status) THEN params.status ELSE EmptyDict
           raw == IF Truthy(params.conditions) THEN params.conditions ELSE EmptyList
           conds == validate_conditions(raw)
       IN  IF ~(Supplied(params) \subseteq STATUS_ARG_SPEC)
           THEN Fail("unsupported") /\ UNCHANGED <<status, conditions>>
           ELSE IF validate_conditions_raises(raw)
           THEN Fail("validation") /\ UNCHANGED <<status, conditions>>
           ELSE IF Truthy(conds) /\ Truthy(st0) /\ Truthy(Get(st0, "conditions", None))
           THEN Fail("conflict") /\ UNCHANGED <<status, conditions>>
           ELSE /\ conditions' = conds
                /\ status' = IF Truthy(conds) THEN SetItem(st0, "conditions", conds) ELSE st0
                /\ pc' = "constructed"
                /\ UNCHANGED error
    /\ UNCHANGED <<params, remote, instance, calls, result, changed, prev, inv>>

\* execute_module: self.client = get_api_client(self)
get_api_client ==
    /\ pc = "constructed"
    /\ UNCHANGED evars
    /\ calls' = Append(calls, [op |-> "client", body |-> NoInstance])
    /\ \/ pc' = "client" /\ UNCHANGED error
       \/ Fail("client")
    /\ UNCHANGED <<params, remote, status, conditions, instance, result, changed, prev, inv>>

\* execute_module: resource = find_resource(...), None when nothing matches
find_resource ==
    /\ pc = "client"
    /\ UNCHANGED evars
    /\ calls' = Append(calls, [op |-> "find", body |-> NoInstance])
    /\ \/ pc' = "resource" /\ UNCHANGED error
       \/ Fail("notfound")
    /\ UNCHANGED <<params, remote, status, conditions, instance, result, changed, prev, inv>>

\* execute_module: the status subresource check
CheckSubresource ==
    /\ pc = "resource"
    /\ UNCHANGED evars
    /\ \/ pc' = "subresource" /\ UNCHANGED error
       \/ Fail("nosubresource")
    /\ UNCHANGED <<params, remote, status, conditions, instance, calls, result, changed, prev, inv>>

\* execute_module: instance = resource.get(...).to_dict(), status defaulted to {}
GetInstance ==
    /\ pc = "subresource"
    /\ UNCHANGED evars
    /\ calls' = Append(calls, [op |-> "get", body |-> NoInstance])
    /\ \/ /\ pc' = "fetched"
          /\ instance' = [status |-> IF remote = Absent THEN EmptyDict ELSE remote]
          /\ UNCHANGED error
       \/ Fail("get") /\ UNCHANGED instance
    /\ UNCHANGED <<params, remote, status, conditions, result, changed, prev, inv>>

\* Finish sending the call a second time when the first one has failed
Finish_retries(d, stored, shape) ==
    IF d.call = NoCall
    THEN /\ pc' = "done"
         /\ result' = [shape |-> "object", obj |-> d.result]
         /\ changed' = d.changed
         /\ UNCHANGED <<calls, remote, error>>
    ELSE \/ /\ calls' = Append(calls, d.call)
            /\ remote' = stored
            /\ result' = [shape |-> shape, obj |-> [d.call.body EXCEPT !.status = stored]]
            /\ changed' = d.changed
            /\ pc' = "done"
            /\ UNCHANGED error
         \/ /\ calls' = Append(Append(calls, d.call), d.call)
            /\ Fail("write")
            /\ UNCHANGED <<remote, result, changed>>

\* the end of execute_module for a decision d of replace or patch; stored is
\* what the resource holds once the call has succeeded
Finish(d, stored, shape) ==
    IF d.call = NoCall
    THEN /\ pc' = "done"
         /\ result' = [shape |-> "object", obj |-> d.result]
         /\ changed' = d.changed
         /\ UNCHANGED <<calls, remote, error>>
    ELSE /\ calls' = Append(calls, d.call)
         /\ \/ /\ remote' = stored
               /\ result' = [shape |-> shape, obj |-> [d.call.body EXCEPT !.status = stored]]
               /\ changed' = d.changed
               /\ pc' = "done"
               /\ UNCHANGED error
            \/ Fail("write") /\ UNCHANGED <<remote, result, changed>>

\* execute_module: self.exit_json(**self.replace(resource, instance)).
\* __init__ has assigned the value of the replace parameter to self.replace,
\* which hides the method of that name: the call is a call of True and
\* raises TypeError before anything is sent
Replace ==
    /\ pc = "fetched"
    /\ UNCHANGED evars
    /\ params.replace
    /\ Fail("exception")
    /\ UNCHANGED <<params, remote, status, conditions, instance, calls, result,
                   changed, prev, inv>>

\* execute_module: self.exit_json(**self.patch(resource, instance))
Patch ==
    /\ pc = "fetched"
    /\ UNCHANGED evars
    /\ ~params.replace
    /\ IF object_contains_raises(clean_last_transition_time(instance.status), status)
       THEN Fail("exception") /\ UNCHANGED <<calls, remote, result, changed>>
       ELSE LET d == patch(status, instance)
            IN  Finish(d, MergePatch(instance.status, d.call.body.status), "object")
    /\ UNCHANGED <<params, status, conditions, instance, prev, inv>>

\* what the invocation decided
Decision ==
    IF \E i \in 1..Len(calls) : calls[i].op = "patch" THEN "Patch"
    ELSE IF \E i \in 1..Len(calls) : calls[i].op = "replace" THEN "Replace"
    ELSE IF pc = "done" THEN "NoChange"
    ELSE "none"

\* the task runs again with the same parameters
Reinvoke ==
    /\ pc = "done"
    /\ UNCHANGED evars
    /\ inv < MaxInvocations
    /\ inv' = inv + 1
    /\ prev' = Decision
    /\ pc' = "start"
    /\ status' = None
    /\ conditions' = None
    /\ instance' = NoInstance
    /\ calls' = <<>>
    /\ result' = NoResult
    /\ changed' = FALSE
    /\ error' = ""
    /\ UNCHANGED <<params, remote>>

Next ==
    \/ KubernetesAnsibleStatusModule
    \/ get_api_client
    \/ find_resource
    \/ CheckSubresource
    \/ GetInstance
    \/ Replace
    \/ Patch
    \/ Reinvoke

Spec == Init /\ [][Next]_vars

-----------------------------------------------------------------------------
(* One invocation of k8s_event, and the next one *)

EventFail(kind) ==
    /\ epc' = "failed"
    /\ eerror' = kind

\* execute_module: self.client = get_api_client(self), now, the name with the
\* time appended, and the event built from the parameters
GetEventClient ==
    /\ epc = "start"
    /\ ecalls' = Append(ecalls, [op |-> "client", body |-> NoEvent])
    /\ \/ /\ epc' = "client"
          /\ now' = clock
          /\ event' = Event(eparams.name,
                            IF eparams.appendTimestamp THEN clock ELSE 0,
                            eparams.reason, eparams.message, 0, 0, 0)
          /\ UNCHANGED eerror
       \/ EventFail("client") /\ UNCHANGED <<now, event>>
    /\ UNCHANGED <<eparams, events, clock, prior_event, einstance, eresult, echanged>>
    /\ UNCHANGED svars

\* execute_module: resource = find_resource(...) and
\* v1_events = self.client.resources.get(...), which raises when the
\* cluster does not serve v1 Event
FindEventResource ==
    /\ epc = "client"
    /\ ecalls' = Append(ecalls, [op |-> "find", body |-> NoEvent])
    /\ \/ epc' = "resource" /\ UNCHANGED eerror
       \/ EventFail("exception")
    /\ UNCHANGED <<eparams, events, clock, now, event, prior_event, einstance,
                   eresult, echanged>>
    /\ UNCHANGED svars

\* execute_module: with appendTimestamp the event is created at once
CreateTimestamped ==
    /\ epc = "resource"
    /\ eparams.appendTimestamp
    /\ ecalls' = Append(ecalls, [op |-> "create", body |-> event])
    /\ \/ /\ Stored(events, event.name) = NoEvent
          /\ events' = events \cup {event}
          /\ eresult' = event
          /\ echanged' = TRUE
          /\ epc' = "done"
          /\ UNCHANGED eerror
       \/ EventFail("create") /\ UNCHANGED <<events, eresult, echanged>>
    /\ UNCHANGED <<eparams, clock, now, event, prior_event, einstance>>
    /\ UNCHANGED svars

\* GetPrior writing the count of the prior event as it is, not raised by one
GetPrior_keeps_count ==
    /\ epc = "resource"
    /\ ~eparams.appendTimestamp
    /\ ecalls' = Append(ecalls, [op |-> "get", body |-> NoEvent])
    /\ \/ LET prior == Stored(events, event.name)
              same == prior # NoEvent /\ prior.reason = eparams.reason
          IN  /\ prior_event' = prior
              /\ event' = [event EXCEPT
                              !.count = IF same THEN prior.count ELSE 1,
                              !.firstTimestamp = IF same THEN prior.firstTimestamp ELSE now,
                              !.lastTimestamp = now]
              /\ epc' = "prior"
              /\ UNCHANGED eerror
       \/ EventFail("exception") /\ UNCHANGED <<prior_event, event>>
    /\ UNCHANGED <<eparams, events, clock, now, einstance, eresult, echanged>>
    /\ UNCHANGED svars

\* execute_module: prior_event = resource.get(...), None on NotFoundError,
\* then count and timestamps are added to the event
GetPrior ==
    /\ epc = "resource"
    /\ ~eparams.appendTimestamp
    /\ ecalls' = Append(ecalls, [op |-> "get", body |-> NoEvent])
    /\ \/ LET prior == Stored(events, event.name)
              same == prior # NoEvent /\ prior.reason = eparams.reason
          IN  /\ prior_event' = prior
              /\ event' = [event EXCEPT
                              !.count = IF same THEN prior.count + 1 ELSE 1,
                              !.firstTimestamp = IF same THEN prior.firstTimestamp ELSE now,
                              !.lastTimestamp = now]
              /\ epc' = "prior"
              /\ UNCHANGED eerror
       \/ EventFail("exception") /\ UNCHANGED <<prior_event, event>>
    /\ UNCHANGED <<eparams, events, clock, now, einstance, eresult, echanged>>
    /\ UNCHANGED svars

\* execute_module: instance = v1_events.get(...)
GetEvent ==
    /\ epc = "prior"
    /\ ecalls' = Append(ecalls, [op |-> "get", body |-> NoEvent])
    /\ \/ /\ einstance' = Stored(events, event.name)
          /\ epc' = "fetched"
          /\ UNCHANGED eerror
       \/ EventFail("exception") /\ UNCHANGED einstance
    /\ UNCHANGED <<eparams, events, clock, now, event, prior_event, eresult, echanged>>
    /\ UNCHANGED svars

\* execute_module: NotFoundError, the event is created
CreateEvent ==
    /\ epc = "fetched"
    /\ einstance = NoEvent
    /\ ecalls' = Append(ecalls, [op |-> "create", body |-> event])
    /\ \/ /\ events' = events \cup {event}
          /\ eresult' = event
          /\ echanged' = TRUE
          /\ epc' = "done"
          /\ UNCHANGED eerror
       \/ EventFail("create") /\ UNCHANGED <<events, eresult, echanged>>
    /\ UNCHANGED <<eparams, clock, now, event, prior_event, einstance>>
    /\ UNCHANGED svars

\* execute_module: the event exists and is patched; every field the model
\* keeps of an event is in the body, so the patched event is the body
PatchEvent ==
    /\ epc = "fetched"
    /\ einstance # NoEvent
    /\ ecalls' = Append(ecalls, [op |-> "patch", body |-> event])
    /\ \/ /\ events' = (events \ {einstance}) \cup {event}
          /\ eresult' = event
          /\ echanged' = (einstance # event)
          /\ epc' = "done"
          /\ UNCHANGED eerror
       \/ EventFail("patch") /\ UNCHANGED <<events, eresult, echanged>>
    /\ UNCHANGED <<eparams, clock, now, event, prior_event, einstance>>
    /\ UNCHANGED svars

\* the task runs again, later, with parameters of its own
EventReinvoke ==
    /\ epc = "done"
    /\ clock < MaxClock
    /\ clock' = clock + 1
    /\ eparams' \in EventParams
    /\ epc' = "start"
    /\ now' = 0
    /\ event' = NoEvent
    /\ prior_event' = NoEvent
    /\ einstance' = NoEvent
    /\ ecalls' = <<>>
    /\ eresult' = NoEvent
    /\ echanged' = FALSE
    /\ eerror' = ""
    /\ UNCHANGED events
    /\ UNCHANGED svars

\* the namespace is empty or holds an event of the name, written at time 1
EventInit ==
    /\ eparams \in EventParams
    /\ events \in {{}, {Event("ev", 0, "Started", "m", 1, 1, 1)}}
    /\ clock = 2
    /\ EventStart
    /\ params = [status |-> None, conditions |-> None,
                 replace |-> FALSE, replace_lists |-> FALSE]
    /\ remote = Absent
    /\ StatusStart

EventNext ==
    \/ GetEventClient
    \/ FindEventResource
    \/ CreateTimestamped
    \/ GetPrior
    \/ GetEvent
    \/ CreateEvent
    \/ PatchEvent
    \/ EventReinvoke

EventSpec == EventInit /\ [][EventNext]_vars

-----------------------------------------------------------------------------
(* What the properties speak about *)

Terminal == pc \in {"done", "failed"}

\* the patch and replace calls issued so far by this invocation
Writes == SelectSeq(calls, LAMBDA c : c.op \in {"patch", "replace"})

Fetched == instance # NoInstance

\* the condition lists of the fetched status and of the desired status
ObservedConds ==
    IF Fetched THEN Get(instance.status, "conditions", EmptyList).v ELSE <<>>

DesiredConds ==
    IF status.t = "dict" THEN Get(status, "conditions", EmptyList).v ELSE <<>>

\* the status carried by the write call, and its conditions
Sent == Writes[1].body.status

SentConds == Get(Sent, "conditions", EmptyList).v

TypesOf(s) == { TypeOf(s[i]) : i \in 1..Len(s) }

HasLTT(s) == \E i \in 1..Len(s) : "lastTransitionTime" \in DOMAIN s[i].v

\* the merge ran on two non-empty lists
Merged ==
    /\ Decision = "Patch"
    /\ Len(ObservedConds) > 0
    /\ Len(DesiredConds) > 0

\* d differs from o in no field other than lastTransitionTime
SameButLTT(d, o) == clean_item(d) = clean_item(o)

-----------------------------------------------------------------------------
(* C1: convergence on the merge path *)

-----------------------------------------------------------------------------
(* C2: nothing is written when the desired status is already there *)

\* C2: on the merge path, when the fetched status stripped of
\* lastTransitionTime contains the desired status, the invocation ends with
\* changed = false, issues no patch and no replace, and returns the fetched
\* instance, its conditions still carrying their lastTransitionTime.
C2_NoChangeReturnsInstance ==
    (/\ ~params.replace
     /\ Fetched
     /\ Terminal
     /\ object_contains(clean_last_transition_time(instance.status), status)) =>
        /\ pc = "done"
        /\ ~changed
        /\ Writes = <<>>
        /\ result = [shape |-> "object", obj |-> instance]
        /\ result.obj.status = (IF remote = Absent THEN EmptyDict ELSE remote)

C2_Witness ==
    /\ ~params.replace
    /\ pc = "done"
    /\ ~changed
    /\ Len(DesiredConds) > 0
    /\ HasLTT(ObservedConds)
    /\ HasLTT(result.obj.status.v["conditions"].v)

-----------------------------------------------------------------------------
(* C3: the replace path *)

\* C3 as stated: with replace set, a desired status equal to the fetched one
\* ends the invocation with no change and no write; any other is sent as it
\* is, in exactly one replace call and without merging conditions, and the
\* invocation reports changed = true once that call has returned.
C3_Original ==
    (params.replace /\ Fetched /\ Terminal) =>
        IF status = instance.status
        THEN /\ pc = "done"
             /\ ~changed
             /\ Decision = "NoChange"
             /\ calls[Len(calls)].op = "get"
        ELSE /\ Writes = <<[op |-> "replace", body |-> [status |-> status]]>>
             /\ pc = "done" => changed
             /\ pc = "failed" => error = "write"

-----------------------------------------------------------------------------
(* C4, C5: a desired condition whose type the resource already has *)

\* C4 as stated: in a merge of two non-empty lists, an observed entry that a
\* desired condition of its type differs from in no field other than
\* lastTransitionTime stays in the merged list, at its index, as it was.
C4_Original ==
    Merged =>
        \A i \in 1..Len(ObservedConds), j \in 1..Len(DesiredConds) :
            (/\ TypeOf(DesiredConds[j]) = TypeOf(ObservedConds[i])
             /\ SameButLTT(DesiredConds[j], ObservedConds[i])) =>
                SentConds[i] = ObservedConds[i]

\* C5 as stated: when both lists are non-empty, a desired condition that
\* differs from the observed entry of its type in some field other than
\* lastTransitionTime makes the invocation decide Patch, and the merged list
\* holds that desired condition at the observed entry's index.
C5_Original ==
    (/\ ~params.replace
     /\ Fetched
     /\ Terminal
     /\ Len(ObservedConds) > 0
     /\ Len(DesiredConds) > 0) =>
        \A i \in 1..Len(ObservedConds), j \in 1..Len(DesiredConds) :
            (/\ TypeOf(DesiredConds[j]) = TypeOf(ObservedConds[i])
             /\ ~SameButLTT(DesiredConds[j], ObservedConds[i])) =>
                /\ Decision = "Patch"
                /\ SentConds[i] = DesiredConds[j]

-----------------------------------------------------------------------------
(* C6: the document a Patch sends *)

\* C6 as stated: a Patch decision issues exactly one patch call, whose status
\* is the observed status overlaid with the desired fields and whose
\* conditions hold every observed condition of a type the desired list lacks.
C6_Original ==
    Decision = "Patch" =>
        /\ Len(Writes) = 1
        /\ \A k \in (DOMAIN instance.status.v \cup DOMAIN status.v) \ {"conditions"} :
              /\ k \in DOMAIN Sent.v
              /\ Sent.v[k] = IF k \in DOMAIN status.v THEN status.v[k]
                             ELSE instance.status.v[k]
        /\ \A i \in 1..Len(ObservedConds) :
              TypeOf(ObservedConds[i]) \notin TypesOf(DesiredConds) =>
                  \E m \in 1..Len(SentConds) : SentConds[m] = ObservedConds[i]

\* C6 (amended): a Patch decision issues exactly one patch call, whose status
\* has the keys of the desired status and no other, each field but conditions
\* as desired; when both condition lists are non-empty every observed
\* condition of a type the desired list lacks is in it at its index as
\* fetched, lastTransitionTime included, and every desired type is in it;
\* when either list is empty the desired status is sent as given.
C6_PatchSendsDesired ==
    Decision = "Patch" =>
        /\ Len(Writes) = 1
        /\ calls[Len(calls)].op = "patch"
        /\ DOMAIN Sent.v = DOMAIN status.v
        /\ \A k \in DOMAIN status.v \ {"conditions"} : Sent.v[k] = status.v[k]
        /\ IF Len(ObservedConds) > 0 /\ Len(DesiredConds) > 0
           THEN /\ \A i \in 1..Len(ObservedConds) :
                     TypeOf(ObservedConds[i]) \notin TypesOf(DesiredConds) =>
                         SentConds[i] = ObservedConds[i]
                /\ TypesOf(SentConds) = TypesOf(ObservedConds) \cup TypesOf(DesiredConds)
           ELSE Sent = status

C6_Witness ==
    /\ Merged
    /\ DOMAIN instance.status.v \ DOMAIN status.v # {}
    /\ \E i \in 1..Len(ObservedConds) :
          /\ TypeOf(ObservedConds[i]) \notin TypesOf(DesiredConds)
          /\ "lastTransitionTime" \in DOMAIN ObservedConds[i].v
          /\ SentConds[i] = ObservedConds[i]

-----------------------------------------------------------------------------
(* C7, C8, C9: the merged list *)

\* C7 as stated: merging the desired conditions into the result of a merge
\* gives that result again.
C7_Original ==
    Decision = "Patch" =>
        Get(merge_status(Sent, status), "conditions", EmptyList).v = SentConds

\* C8 as stated: when the observed types are pairwise distinct and the
\* desired list went through validation, no two merged entries share a type.
C8_Original ==
    (/\ Decision = "Patch"
     /\ Truthy(conditions)
     /\ DistinctTypes(ObservedConds)) =>
        DistinctTypes(SentConds)

\* the types of s that are not in seen, each once, in order of appearance
RECURSIVE NewTypes(_, _)
NewTypes(s, seen) ==
    IF s = <<>> THEN <<>>
    ELSE IF TypeOf(Head(s)) \in seen THEN NewTypes(Tail(s), seen)
    ELSE <<TypeOf(Head(s))>> \o NewTypes(Tail(s), seen \cup {TypeOf(Head(s))})

\* C9: when both lists are non-empty the merged list has, at each index of
\* the observed list, an entry of the type the observed list has there (the
\* observed entry itself when the desired list lacks the type), followed by
\* the types only the desired list has, in the order the desired list has
\* them; when either list is empty the result is the desired list as given.
C9_MergedOrder ==
    Decision = "Patch" =>
        IF Len(ObservedConds) > 0 /\ Len(DesiredConds) > 0
        THEN /\ Len(SentConds) >= Len(ObservedConds)
             /\ \A i \in 1..Len(ObservedConds) :
                   /\ TypeOf(SentConds[i]) = TypeOf(ObservedConds[i])
                   /\ TypeOf(ObservedConds[i]) \notin TypesOf(DesiredConds) =>
                         SentConds[i] = ObservedConds[i]
             /\ [i \in 1..(Len(SentConds) - Len(ObservedConds)) |->
                    TypeOf(SentConds[Len(ObservedConds) + i])]
                  = NewTypes(DesiredConds, TypesOf(ObservedConds))
        ELSE SentConds = DesiredConds

C9_Witness ==
    /\ Merged
    /\ Len(SentConds) = Len(ObservedConds) + 2
    /\ HasLTT(SentConds)

-----------------------------------------------------------------------------
(* C10: replace_lists *)

RemoteErrors == {"client", "notfound", "nosubresource", "get", "write"}

\* C10 as stated: with observed tags [a, b, c] and desired tags [a, b] the
\* merge path decides NoChange by default and Patch with replace_lists set.
C10_Original ==
    (/\ Terminal
     /\ error \notin RemoteErrors
     /\ ~params.replace
     /\ params.status = Dict("tags" :> Tags(<<"a", "b">>))
     /\ ~Truthy(params.conditions)
     /\ remote.t = "dict"
     /\ Get(remote, "tags", None) = Tags(<<"a", "b", "c">>)) =>
        Decision = IF params.replace_lists THEN "Patch" ELSE "NoChange"

-----------------------------------------------------------------------------
(* C11, C12, C13: containment of the desired status in the fetched one *)

\* the fetched status as patch compares it
Cleaned == clean_last_transition_time(instance.status)

\* the merge path has fetched the instance
MergePath == ~params.replace /\ Fetched /\ status.t = "dict"

Shape(x) ==
    CASE x.t = "dict" -> "mapping"
      [] x.t \in {"list", "tuple"} -> "sequence"
      [] OTHER -> "scalar"

\* every desired element equals some observed element
SeqContains(o, d) ==
    \A i \in 1..Len(d.v) : \E j \in 1..Len(o.v) : o.v[j] = d.v[i]

\* containment of mappings as C11 states it, on values of agreeing shapes
RECURSIVE MappingContains(_, _)
MappingContains(o, d) ==
    \A k \in DOMAIN d.v :
        /\ k \in DOMAIN o.v
        /\ CASE Shape(d.v[k]) = "mapping" -> MappingContains(o.v[k], d.v[k])
             [] Shape(d.v[k]) = "sequence" -> SeqContains(o.v[k], d.v[k])
             [] OTHER -> o.v[k] = d.v[k]

\* no key that both mappings have holds values of different shapes
RECURSIVE SameShapes(_, _)
SameShapes(o, d) ==
    \A k \in DOMAIN d.v \cap DOMAIN o.v :
        /\ Shape(o.v[k]) = Shape(d.v[k])
        /\ Shape(d.v[k]) = "mapping" => SameShapes(o.v[k], d.v[k])

\* C11 as stated: the fetched status contains the desired one exactly when
\* every desired key exists in it and its value contains the desired value,
\* nested mappings included; keys only the fetched status has are ignored; a
\* desired key the fetched status lacks makes the result false, a null
\* desired value included.  An invocation that ends decides NoChange exactly
\* in that case.
C11_Original ==
    (MergePath /\ SameShapes(Cleaned, status)) =>
        /\ object_contains(Cleaned, status) = MappingContains(Cleaned, status)
        /\ pc = "done" => ((Decision = "NoChange") = MappingContains(Cleaned, status))

\* C12 as stated: when some key holds values of different shapes in the
\* fetched and in the desired status, containment is false: the invocation
\* does not abort in the comparison and does not decide NoChange.
C12_Original ==
    (/\ MergePath
     /\ Terminal
     /\ \E k \in DOMAIN status.v \cap DOMAIN Cleaned.v :
           Shape(Cleaned.v[k]) # Shape(status.v[k])) =>
        /\ error # "exception"
        /\ ~object_contains(Cleaned, status)
        /\ Decision # "NoChange"

\* the desired status is a tags list and the fetched status has a tags list
TagsOnly ==
    /\ MergePath
    /\ DOMAIN status.v = {"tags"}
    /\ status.v["tags"].t = "list"
    /\ Get(Cleaned, "tags", None).t = "list"

\* C13: a desired list is contained in the fetched list exactly when each of
\* its elements equals some element of the fetched list, whatever the order
\* and the number of occurrences; the invocation then ends with no change and
\* no write, and otherwise issues a patch.
C13_ListContainment ==
    (TagsOnly /\ Terminal) =>
        IF SeqContains(Cleaned.v["tags"], status.v["tags"])
        THEN pc = "done" /\ Decision = "NoChange" /\ ~changed /\ Writes = <<>>
        ELSE Decision = "Patch" /\ (pc = "failed" => error = "write")

C13_Witness ==
    /\ TagsOnly
    /\ pc = "done"
    /\ Decision = "NoChange"
    /\ status.v["tags"] = Tags(<<"b", "a", "a">>)
    /\ Cleaned.v["tags"] = Tags(<<"a", "b", "c">>)

-----------------------------------------------------------------------------
(* C14, C15: what validation accepts *)

\* the argument spec has let the parameters through to __init__
ArgsAccepted == Supplied(params) \subseteq STATUS_ARG_SPEC

\* the conditions parameter as a sequence, empty when it was not given
GivenConds == IF params.conditions.t = "list" THEN params.conditions.v ELSE <<>>

\* c has a non-empty value under key that is no RFC 3339 timestamp
BadTime(c, key) ==
    /\ c.t = "dict"
    /\ key \in DOMAIN c.v
    /\ c.v[key].t = "str"
    /\ c.v[key].v # ""
    /\ c.v[key].v \notin RFC3339_datetime

\* C14 as stated: a condition whose lastHeartbeatTime or lastTransitionTime
\* is present, non-empty and not an RFC 3339 timestamp makes validation fail;
\* this holds for each of the two fields.
C14_Original ==
    (/\ pc # "start"
     /\ ArgsAccepted
     /\ \E i \in 1..Len(GivenConds) :
           \E key \in {"lastHeartbeatTime", "lastTransitionTime"} :
               BadTime(GivenConds[i], key)) =>
        pc = "failed" /\ error = "validation"

ConditionKeys ==
    {"type", "status", "reason", "message", "lastHeartbeatTime", "lastTransitionTime"}

StatusStrings == {Str("True"), Str("False"), Str("Unknown")}

\* a condition as validation is to return it
WellFormed(c) ==
    /\ c.t = "dict"
    /\ DOMAIN c.v \subseteq ConditionKeys
    /\ "type" \in DOMAIN c.v
    /\ c.v["type"] \notin {Str(""), None}
    /\ "status" \in DOMAIN c.v
    /\ c.v["status"] \in StatusStrings

\* an input element that breaks one of these rules, a boolean status being
\* taken for its string
Violates(c) ==
    ~WellFormed(IF c.t = "dict" /\ "status" \in DOMAIN c.v /\ c.v["status"].t = "bool"
                THEN SetItem(c, "status", IF c.v["status"].v THEN Str("True") ELSE Str("False"))
                ELSE c)

\* C15: every condition validation returns is a mapping whose keys are among
\* type, status, reason, message, lastHeartbeatTime and lastTransitionTime,
\* with a non-empty type and a status that is the string True, False or
\* Unknown, a boolean input having become the matching string; an input
\* element that breaks one of these rules makes validation fail, and no list
\* is returned.
C15_ValidatedConditions ==
    /\ conditions # None =>
          /\ Len(conditions.v) = Len(GivenConds)
          /\ \A i \in 1..Len(conditions.v) :
                /\ WellFormed(conditions.v[i])
                /\ GivenConds[i].v["status"].t = "bool" =>
                      conditions.v[i].v["status"].v =
                          (IF GivenConds[i].v["status"].v THEN "True" ELSE "False")
    /\ (/\ pc # "start"
        /\ ArgsAccepted
        /\ \E i \in 1..Len(GivenConds) : Violates(GivenConds[i])) =>
          /\ pc = "failed"
          /\ error = "validation"
          /\ conditions = None

C15_Witness ==
    /\ pc = "constructed"
    /\ Len(GivenConds) = 2
    /\ GivenConds[1].v["status"] = Bool(FALSE)
    /\ conditions.v[1].v["status"] = Str("False")
    /\ status.v["conditions"] = conditions

-----------------------------------------------------------------------------
(* C16, C17, C18: the inputs __init__ refuses *)

\* conditions were given both on their own and inside status
BothGiven ==
    /\ Truthy(params.conditions)
    /\ Truthy(params.status)
    /\ Truthy(Get(params.status, "conditions", None))

\* C16 as stated: conditions given both on their own and inside status end
\* the invocation with the conflicting-inputs error, and that check comes
\* before the validation of the conditions: the conflict is what is reported
\* even when a condition is invalid.
C16_Original ==
    (pc # "start" /\ ArgsAccepted /\ BothGiven) =>
        pc = "failed" /\ error = "conflict"

\* the input has an invalid condition or gives the conditions twice
InputRefused ==
    \/ validate_conditions_raises(List(GivenConds))
    \/ BothGiven

\* C17: an input that fails validation, by an invalid condition or by
\* conflicting inputs, ends the invocation with that error before any remote
\* operation: no client is built, nothing is looked up, fetched, patched or
\* replaced, and nothing is decided; an invocation that has made a remote
\* call has validated its whole input.
C17_NoRemoteCallOnInvalidInput ==
    /\ (pc # "start" /\ ArgsAccepted /\ InputRefused) =>
          /\ pc = "failed"
          /\ error \in {"validation", "conflict"}
          /\ calls = <<>>
          /\ ~Fetched
          /\ Decision = "none"
          /\ result = NoResult
    /\ error \in {"validation", "conflict"} => calls = <<>>
    /\ calls # <<>> => ~InputRefused /\ conditions # None /\ status.t = "dict"

C17_Witness ==
    /\ pc = "failed"
    /\ error = "validation"
    /\ Len(GivenConds) = 2
    /\ validate_condition_error(GivenConds[1]) = ""
    /\ validate_condition_error(GivenConds[2]) # ""
    /\ calls = <<>>

\* C18 as stated: an invocation given neither status nor conditions fails; it
\* does not end with NoChange, Patch or Replace.
C18_Original ==
    (ArgsAccepted /\ ~Truthy(params.status) /\ ~Truthy(params.conditions)) =>
        /\ pc # "done"
        /\ Decision = "none"

-----------------------------------------------------------------------------
(* C20: the remote calls of one invocation *)

Ops == [i \in 1..Len(calls) |-> calls[i].op]

\* C20: an invocation looks the resource up, checks its status subresource,
\* fetches the instance, decides, and writes, in that order, with at most one
\* fetch and at most one write; when the lookup finds nothing, the resource
\* has no status subresource or the fetch fails, the invocation fails and
\* writes nothing; a write that fails is reported as a failure and is not
\* sent again.
C20_RemoteOrder ==
    /\ \E n \in 0..4, w \in {"patch", "replace"} :
          Ops = SubSeq(<<"client", "find", "get", w>>, 1, n)
    /\ Len(SelectSeq(calls, LAMBDA c : c.op = "get")) <= 1
    /\ Len(Writes) <= 1
    /\ pc \in {"start", "constructed", "client", "resource"} => Len(calls) <= 2
    /\ Writes # <<>> => Fetched /\ pc \in {"done", "failed"}
    /\ error \in {"notfound", "nosubresource"} =>
          pc = "failed" /\ Ops = <<"client", "find">>
    /\ error = "get" => pc = "failed" /\ Ops = <<"client", "find", "get">> /\ ~Fetched
    /\ error = "write" =>
          /\ pc = "failed"
          /\ Len(Writes) = 1
          /\ ~changed
          /\ result = NoResult

C20_Witness ==
    /\ error = "write"
    /\ Ops = <<"client", "find", "get", "patch">>
    /\ Len(ObservedConds) > 0

-----------------------------------------------------------------------------
(* C19: k8s_event with state=absent *)

EventWrites == SelectSeq(ecalls, LAMBDA c : c.op \in {"create", "patch"})

\* C19 as stated: with state=absent the named event is deleted if it exists
\* and nothing changes if it does not; no event is created or patched.
C19_Original ==
    eparams.state = "absent" =>
        /\ EventWrites = <<>>
        /\ epc = "done" =>
              /\ Stored(events, [base |-> eparams.name, ts |-> 0]) = NoEvent
              /\ echanged = (einstance # NoEvent)

-----------------------------------------------------------------------------
(* C21: a desired condition that carries a lastTransitionTime *)

\* C21 as stated: on the merge path, when some desired condition has a
\* lastTransitionTime, the invocation decides Patch and issues a write,
\* whatever the fetched status is, the case of a fetched condition equal to
\* the desired one, timestamp included, among them.
C21_Original ==
    (MergePath /\ Terminal /\ HasLTT(DesiredConds)) =>
        /\ Decision = "Patch"
        /\ Len(Writes) = 1

-----------------------------------------------------------------------------
(* C22, C23: what k8s_event writes *)

EventOps == [i \in 1..Len(ecalls) |-> ecalls[i].op]

\* the name the invocation was given, no time appended
GivenName == [base |-> eparams.name, ts |-> 0]

C23_Original ==
    /\ (eparams.state = "present" /\ ~eparams.appendTimestamp /\ epc = "done") =>
          IF einstance = NoEvent
          THEN EventOps[Len(EventOps)] = "create" /\ echanged
          ELSE IF einstance.reason # eparams.reason \/ einstance.message # eparams.message
          THEN EventOps[Len(EventOps)] = "patch"
          ELSE EventWrites = <<>> /\ ~echanged /\ events = {einstance}
    /\ eparams.appendTimestamp =>
          /\ \A i \in 1..Len(EventOps) : EventOps[i] \notin {"get", "patch"}
          /\ epc = "done" => EventOps = <<"client", "find", "create">> /\ echanged

====
